---- MODULE Spec2Model ----
(***************************************************************************)
(* GoAmbient: a poller that every five minutes fetches one reading from    *)
(* the Ambient Weather API (AmbientWeatherAPI.go) and writes it as a row   *)
(* of the current year's sheet of a Google spreadsheet (Sheets.go), driven *)
(* by scheduleAPI (main.go).                                               *)
(*                                                                         *)
(* Strings are sequences of one-character strings.  A Go interface{} cell  *)
(* is <<>> for nil and <<s>> for the string s.                             *)
(***************************************************************************)
EXTENDS Integers, Sequences, FiniteSets, TLC

\* ------------------------------------------------------------------ bounds

\* Poll cycles the scheduler starts in one behaviour.
MaxCycles == 2
\* Times the process is started again after it died.
MaxRestarts == 1

\* ------------------------------------------------------------- strings

Q == "\""

Letters ==
  << "A", "B", "C", "D", "E", "F", "G", "H", "I", "J", "K", "L", "M",
     "N", "O", "P", "Q", "R", "S", "T", "U", "V", "W", "X", "Y", "Z" >>

Digits == << "0", "1", "2", "3", "4", "5", "6", "7", "8", "9" >>

\* int(letter - 'A') for an upper-case letter.
LetterOffset(c) == (CHOOSE i \in 1..26 : Letters[i] = c) - 1

\* strings.Split(s, sep) for a one-character separator: the pieces between
\* the separators; a string without separator (the empty one too) is the
\* only piece.
RECURSIVE Split(_, _)
Split(s, sep) ==
  IF \E i \in 1..Len(s) : s[i] = sep
  THEN LET i == CHOOSE k \in 1..Len(s) :
                  s[k] = sep /\ \A j \in 1..(k - 1) : s[j] # sep
       IN  <<SubSeq(s, 1, i - 1)>> \o Split(SubSeq(s, i + 1, Len(s)), sep)
  ELSE <<s>>

\* strings.Trim(s, cutset) for a one-character cutset.
RECURSIVE TrimLeft(_, _)
TrimLeft(s, c) ==
  IF Len(s) > 0 /\ s[1] = c THEN TrimLeft(Tail(s), c) ELSE s

RECURSIVE TrimRight(_, _)
TrimRight(s, c) ==
  IF Len(s) > 0 /\ s[Len(s)] = c
  THEN TrimRight(SubSeq(s, 1, Len(s) - 1), c)
  ELSE s

Trim(s, c) == TrimRight(TrimLeft(s, c), c)

\* strconv.Itoa for a non-negative number.
RECURSIVE Itoa(_)
Itoa(n) ==
  IF n < 10 THEN <<Digits[n + 1]>>
  ELSE Itoa(n \div 10) \o <<Digits[(n % 10) + 1]>>

\* The number a string of decimal digits denotes.
RECURSIVE Atoi(_)
Atoi(s) ==
  IF Len(s) = 0 THEN 0
  ELSE 10 * Atoi(SubSeq(s, 1, Len(s) - 1))
       + ((CHOOSE i \in 1..10 : Digits[i] = s[Len(s)]) - 1)

\* A letter code read as a base-26 number with A as the digit 0.
RECURSIVE stringToNumZeroBasedLoop(_, _)
stringToNumZeroBasedLoop(letters, result) ==
  IF Len(letters) = 0 THEN result
  ELSE stringToNumZeroBasedLoop(Tail(letters),
                                result * 26 + LetterOffset(Head(letters)))

stringToNumZeroBased(letters) == stringToNumZeroBasedLoop(letters, 0)

\* Sheets.go stringToNum: the zero-based column of a letter code;
\* the empty code gives -1.
RECURSIVE stringToNumLoop(_, _)
stringToNumLoop(letters, result) ==
  IF Len(letters) = 0 THEN result
  ELSE stringToNumLoop(Tail(letters),
                       result * 26 + (LetterOffset(Head(letters)) + 1))

stringToNum(letters) == stringToNumLoop(letters, 0) - 1

\* ------------------------------------------------------- sensor catalog

\* The zero SensorInfo a Go map lookup gives for a missing key.
ZeroSensor == [ID |-> <<>>, Description |-> <<>>]

Lookup(sensors, name) ==
  IF name \in DOMAIN sensors THEN sensors[name] ELSE ZeroSensor

sT1  == <<"T", "1">>
sH1  == <<"H", "1">>
sWS1 == <<"W", "S", "1">>
sOT1 == <<"O", "T", "1">>

dTemp    == <<"T", "e", "m", "p">>
dHum     == <<"H", "u", "m">>
dWind    == <<"W", "i", "n", "d">>
dOutdoor == <<"O", "u", "t", "d", "o", "o", "r", " ", "T", "e", "m", "p">>

\* headers.txt "T1,A,Temp"
CatOne == (sT1 :> [ID |-> <<"A">>, Description |-> dTemp])
\* headers.txt "T1,A,Temp" and "H1,B,Hum"
CatTwo == (sT1 :> [ID |-> <<"A">>, Description |-> dTemp])
          @@ (sH1 :> [ID |-> <<"B">>, Description |-> dHum])
\* headers.txt "WS1,A,Wind" and "OT1,C,Outdoor Temp": no sensor at column B
CatGap == (sWS1 :> [ID |-> <<"A">>, Description |-> dWind])
          @@ (sOT1 :> [ID |-> <<"C">>, Description |-> dOutdoor])

\* The catalogs readSensors may have loaded at startup.
Catalogs == {CatOne, CatTwo, CatGap}

\* ------------------------------------------------------------ payloads

fT1a == <<Q, "T", "1", Q, ":", "6", "8">>
fT1b == <<Q, "T", "1", Q, ":", "7", "0">>
fH1  == <<Q, "H", "1", Q, ":", "4", "0">>
fWS1 == <<Q, "W", "S", "1", Q, ":", "5">>
fOT1 == <<Q, "O", "T", "1", Q, ":", "7", "2">>
\* a field without key/value separator
fBad == <<Q, "T", "1", Q>>

\* The object texts the API answers with.
Payloads ==
  { fT1a, fT1b, fH1, fWS1,
    fT1a \o <<",">> \o fH1,
    fWS1 \o <<",">> \o fOT1,
    fT1a \o <<",">> \o fBad }

\* The response bodies: a one-element JSON array around the object, and
\* the short bodies "", "[]" and "[{}]".
Bodies ==
  {<<>>, <<"[", "]">>, <<"[", "{", "}", "]">>}
  \cup {<<"[", "{">> \o p \o <<"}", "]">> : p \in Payloads}

\* ------------------------------------------------- AmbientWeatherAPI.go

\* executeRequest line 50: data[2 : len(data)-2] panics when the bounds
\* are out of order.
trimPanics(body) == Len(body) - 2 < 2

trimData(body) == SubSeq(body, 3, Len(body) - 2)

\* A retry bound that is off by one.
retryAllowedOneMore(runs) == runs <= 3

\* retryAPICall line 56: whether another request follows a failed one.
retryAllowed(runs) == runs < 3

\* A backoff that counts down.
retryWaitCountdown(runs) == 10 * (3 - runs)

\* retryAPICall line 57: the seconds slept before that request.
retryWait(runs) == 10 * runs

\* ------------------------------------------------------- Sheets.go, pure

\* errorHandler: FALSE once the runs exceed 3, else sleep and TRUE.
errorHandler(runs) == ~(runs > 3)

errorWait(runs) == 10 * runs

\* make([]interface{}, len(allSensors)): a row of nil cells.
rowWidth(sensors) == Cardinality(DOMAIN sensors)

emptyRowOf(sensors) == [i \in 1..rowWidth(sensors) |-> <<>>]

\* writeData lines 186-190: each item is split at ":" and its value is
\* stored at the column of its sensor; an index outside the row, or an
\* item without second part, panics.
RECURSIVE dataRowLoop(_, _, _)
dataRowLoop(sensors, items, row) ==
  IF Len(items) = 0 THEN [panic |-> FALSE, row |-> row]
  ELSE LET dataParts == Split(Head(items), ":")
           position  == Lookup(sensors, Trim(dataParts[1], Q)).ID
           idx       == stringToNum(position)
       IN  IF Len(dataParts) < 2 \/ idx < 0 \/ idx >= Len(row)
           THEN [panic |-> TRUE, row |-> row]
           ELSE dataRowLoop(sensors, Tail(items),
                            [row EXCEPT ![idx + 1] = <<dataParts[2]>>])

\* writeData lines 180-190 for the payload text data.
buildDataRow(sensors, data) ==
  dataRowLoop(sensors, Split(data, ","), emptyRowOf(sensors))

\* createSheet lines 321-324: whether a sensor's column lies outside the
\* header row.
headerPanics(sensors) ==
  \E n \in DOMAIN sensors :
    stringToNum(sensors[n].ID) < 0
    \/ stringToNum(sensors[n].ID) >= rowWidth(sensors)

\* createSheet lines 321-324: the rows the loop can leave; with two
\* sensors at one column the map's iteration order decides.
headerRows(sensors) ==
  {r \in [1..rowWidth(sensors) ->
            {<<>>} \cup {<<sensors[n].Description>> : n \in DOMAIN sensors}] :
     \A i \in 1..rowWidth(sensors) :
       LET here == {n \in DOMAIN sensors : stringToNum(sensors[n].ID) = i - 1}
       IN  IF here = {} THEN r[i] = <<>>
           ELSE \E n \in here : r[i] = <<sensors[n].Description>>}

\* ------------------------------------------------------ the spreadsheet

\* "2024!A:A" or "2024!A3": the sheet title and the cell reference.
rangeTitle(range) == Split(range, "!")[1]

rangeRef(range) == Split(range, "!")[2]

\* The row of a reference "A<n>".
refRow(ref) == Atoi(SubSeq(ref, 2, Len(ref)))

Max(a, b) == IF a >= b THEN a ELSE b

\* Values.Get of column A: the cells down to the last filled one.
lastFilled(rows) ==
  IF \E i \in 1..Len(rows) : Len(rows[i]) > 0 /\ rows[i][1] # <<>>
  THEN CHOOSE i \in 1..Len(rows) :
         /\ Len(rows[i]) > 0 /\ rows[i][1] # <<>>
         /\ \A j \in (i + 1)..Len(rows) : Len(rows[j]) = 0 \/ rows[j][1] = <<>>
  ELSE 0

columnA(rows) ==
  [i \in 1..lastFilled(rows) |->
     IF Len(rows[i]) > 0 /\ rows[i][1] # <<>> THEN <<rows[i][1]>> ELSE <<>>]

\* Values.Update with RAW input of one row at row n: a nil cell is
\* skipped, a string replaces the cell.
writeRow(rows, n, vals) ==
  LET old == IF n <= Len(rows) THEN rows[n] ELSE <<>>
      new == [i \in 1..Max(Len(old), Len(vals)) |->
                IF i <= Len(vals) /\ Len(vals[i]) > 0 THEN vals[i][1]
                ELSE IF i <= Len(old) THEN old[i] ELSE <<>>]
  IN  [i \in 1..Max(Len(rows), n) |->
         IF i = n THEN new ELSE IF i <= Len(rows) THEN rows[i] ELSE <<>>]

\* A sheet as AddSheet leaves it.  Only its cells are kept: the frozen row
\* count that the freeze request sets is a display property that no
\* request of the program reads.
NewSheet == [rows |-> <<>>]

\* --------------------------------------------------------------- state

VARIABLES
  allSensors,   \* Sheets.go allSensors: sensor name -> SensorInfo
  sheets,       \* the spreadsheet: sheet title -> [rows]
  year,         \* the calendar year of time.Now()
  status,       \* "running", "panicked" (a Go panic ended it) or "killed"
  pc,           \* the statement the process is at
  runs,         \* executeRequest's runs
  data,         \* the payload executeRequest returned
  sheetName,    \* writeData: strconv.Itoa(year)
  writeRange,   \* writeData: the range read, "<year>!A:A"
  grRuns,       \* getResponse's runs
  seRuns,       \* the runs of the innermost sheetExists frame
  buRuns,       \* batchUpdateRequest's runs
  uvRuns,       \* updateValues' runs
  writeValues,  \* updateValues: the row to write
  valuesRange,  \* updateValues: "!A<row>"
  cycle,        \* cycles scheduleAPI has started
  restarts,     \* times the process was started again
  httpCount,    \* HTTP requests of the current fetch
  waits,        \* the waits retryAPICall slept in the current fetch
  fetchResult,  \* "none", "payload" or "empty": what the fetch returned
  cycleCalls,   \* the kinds of spreadsheet calls issued in this cycle
  exhausted,    \* a spreadsheet call of this cycle used up its retries
  prevSE,       \* the sheetExists invocation before the current one
  curSE,        \* the current (or last) sheetExists invocation
  crashMid,     \* titles created by a run that died before the header write
  panicAt,      \* the statement that panicked
  attempt,      \* which attempt of its invocation the call at pc is
  grAttempt,    \* which attempt of its invocation the get-values call is
  uvTargets,    \* the <<range, rows>> the attempts of this updateValues sent
  uvFilled,     \* the row positions the attempts of this updateValues filled
  cycleWait,    \* the seconds slept in retry waits in this cycle, or 0
  respNil,      \* getResponse returned nil in this cycle
  now,          \* the wall clock, in seconds
  clockPc,      \* scheduleAPI's position in time; "off": time is not
                \* followed, "waits": only the retry waits are summed
  currentTime,  \* scheduleAPI: currentTime
  nextRun,      \* scheduleAPI: nextRun
  waitDuration, \* scheduleAPI: waitDuration
  runAt,        \* the next-run instant of the cycle that ran last
  doneAt,       \* the time at which the last cycle finished
  code,         \* stringToNum: letters, when the function is run alone
  column        \* stringToNum: <<the value returned>>, <<>> before the call

env    == <<allSensors, sheets, year>>
locals == <<runs, data, sheetName, writeRange, grRuns, seRuns, buRuns,
            uvRuns, writeValues, valuesRange>>
wdLocals == <<runs, data, sheetName, writeRange, grRuns>>
seLocals == <<seRuns, buRuns, uvRuns, writeValues, valuesRange>>
fetchHist == <<httpCount, waits, fetchResult>>
seHist == <<prevSE, curSE>>
uvHist == <<uvTargets, uvFilled>>
callHist == <<attempt, grAttempt, uvTargets, uvFilled>>
codeVars == <<code, column>>
clock == <<now, clockPc, currentTime, nextRun, waitDuration, runAt, doneAt>>
process == <<allSensors, sheets, year, status, pc, runs, data, sheetName,
             writeRange, grRuns, seRuns, buRuns, uvRuns, writeValues,
             valuesRange, cycle, restarts, httpCount, waits, fetchResult,
             cycleCalls, exhausted, prevSE, curSE, crashMid, panicAt,
             attempt, grAttempt, uvTargets, uvFilled, cycleWait, respNil>>
vars == <<process, clock, codeVars>>

\* The calendar years the clock shows, in order.
Years == 2024..2025

\* No sheetExists invocation yet.
NoSE == [name |-> <<>>, recovering |-> FALSE, listed |-> "na",
         creates |-> 0, freezes |-> 0, ok |-> TRUE, ret |-> "none"]

\* A sheetExists invocation in which a spreadsheet call was not answered
\* with success; nothing else is recorded of it.
FailedSE == [name |-> <<>>, recovering |-> FALSE, listed |-> "na",
             creates |-> 0, freezes |-> 0, ok |-> FALSE, ret |-> "none"]

\* A sheetExists invocation that has just been entered.
EnterSE(name) == [name |-> name, recovering |-> name \in crashMid,
                  listed |-> "na", creates |-> 0, freezes |-> 0,
                  ok |-> TRUE, ret |-> "active"]

\* The record se after one more create or freeze call was answered.
Counted(se, field) ==
  IF se.ok THEN [se EXCEPT ![field] = @ + 1] ELSE se

\* The clock is not followed: scheduleAPI is taken as one step.
ClockOff ==
  /\ now = 0
  /\ clockPc = "off"
  /\ currentTime = 0
  /\ nextRun = 0
  /\ waitDuration = 0
  /\ runAt = 0
  /\ doneAt = 0

\* stringToNum is not run alone.
CodeOff ==
  /\ code = <<>>
  /\ column = <<>>

\* The process right after main has set it up, with the catalog sensors.
ProcessInit(sensors) ==
  /\ allSensors = sensors
  /\ sheets = <<>>
  /\ year = 2024
  /\ status = "running"
  /\ pc = "sched"
  /\ runs = 0
  /\ data = <<>>
  /\ sheetName = <<>>
  /\ writeRange = <<>>
  /\ grRuns = 0
  /\ seRuns = 0
  /\ buRuns = 0
  /\ uvRuns = 0
  /\ writeValues = <<>>
  /\ valuesRange = <<>>
  /\ cycle = 0
  /\ restarts = 0
  /\ httpCount = 0
  /\ waits = <<>>
  /\ fetchResult = "none"
  /\ cycleCalls = {}
  /\ exhausted = FALSE
  /\ prevSE = NoSE
  /\ curSE = NoSE
  /\ crashMid = {}
  /\ panicAt = "none"
  /\ attempt = 0
  /\ grAttempt = 0
  /\ uvTargets = {}
  /\ uvFilled = {}
  /\ cycleWait = 0
  /\ respNil = FALSE

Init ==
  /\ \E sensors \in Catalogs : ProcessInit(sensors)
  /\ ClockOff
  /\ CodeOff

Running(at) == status = "running" /\ pc = at

\* A Go panic: the process ends where it stands.
Panic(at) ==
  /\ status' = "panicked"
  /\ panicAt' = at

NoPanic == UNCHANGED <<status, panicAt>>

\* The variables of the frames below scheduleAPI, when none is live.
NoFrames ==
  /\ runs' = 0
  /\ data' = <<>>
  /\ sheetName' = <<>>
  /\ writeRange' = <<>>
  /\ grRuns' = 0
  /\ seRuns' = 0
  /\ buRuns' = 0
  /\ uvRuns' = 0
  /\ writeValues' = <<>>
  /\ valuesRange' = <<>>

\* The variables of the frames below getResponse, when none is live.
NoSheetExistsFrames ==
  /\ seRuns' = 0
  /\ buRuns' = 0
  /\ uvRuns' = 0
  /\ writeValues' = <<>>
  /\ valuesRange' = <<>>

\* time.Sleep of a retry wait (AmbientWeatherAPI.go line 60, Sheets.go
\* line 417): the seconds slept in the cycle, where the waits are followed.
slept(wait) == IF clockPc = "off" THEN cycleWait ELSE cycleWait + wait

\* No spreadsheet call is in progress.
NoCalls ==
  /\ attempt' = 0
  /\ grAttempt' = 0
  /\ uvTargets' = {}
  /\ uvFilled' = {}

\* -------------------------------------------------------------- main.go

\* scheduleAPI lines 46-56: sleep to the next boundary, then start the
\* fetch with executeRequest(0).
scheduleAPI ==
  /\ Running("sched")
  /\ cycle < MaxCycles
  /\ cycle' = cycle + 1
  /\ pc' = "exec"
  /\ httpCount' = 0
  /\ waits' = <<>>
  /\ fetchResult' = "none"
  /\ cycleCalls' = {}
  /\ exhausted' = FALSE
  /\ NoCalls
  /\ cycleWait' = 0
  /\ respNil' = FALSE
  /\ NoPanic
  /\ UNCHANGED <<env, locals, restarts, seHist, crashMid, clock, codeVars>>

\* writeData returns; scheduleAPI line 62 calls scheduleAPI.
writeDataReturns ==
  /\ pc' = "sched"
  /\ NoFrames
  /\ NoCalls
  /\ NoPanic

\* ------------------------------------------------- AmbientWeatherAPI.go

\* executeRequest with a failing request (transport error, status other
\* than 200, unreadable body): retryAPICall sleeps and calls
\* executeRequest(runs + 1), or gives "" to scheduleAPI, which calls
\* writeData("").
executeRequestFails ==
  /\ Running("exec")
  /\ \E failure \in {"transport", "status", "read"} :
       /\ httpCount' = httpCount + 1
       /\ IF retryAllowed(runs)
          THEN /\ waits' = Append(waits, retryWait(runs))
               /\ cycleWait' = slept(retryWait(runs))
               /\ runs' = runs + 1
               /\ UNCHANGED <<pc, data, fetchResult>>
          ELSE /\ data' = <<>>
               /\ fetchResult' = "empty"
               /\ runs' = 0
               /\ pc' = "wd_year"
               /\ UNCHANGED <<waits, cycleWait>>
  /\ NoPanic
  /\ UNCHANGED <<env, sheetName, writeRange, grRuns, seLocals, cycle,
                 restarts, cycleCalls, exhausted, seHist, crashMid,
                 callHist, respNil, clock, codeVars>>

\* executeRequest with status 200 and a body read to its end: the body
\* without its first and last two characters goes to writeData.
executeRequestOK ==
  /\ Running("exec")
  /\ \E body \in Bodies :
       /\ httpCount' = httpCount + 1
       /\ IF trimPanics(body)
          THEN /\ Panic("trim")
               /\ UNCHANGED <<pc, runs, data, fetchResult>>
          ELSE /\ data' = trimData(body)
               /\ fetchResult' = "payload"
               /\ runs' = 0
               /\ pc' = "wd_year"
               /\ NoPanic
  /\ UNCHANGED <<env, sheetName, writeRange, grRuns, seLocals, cycle,
                 restarts, waits, cycleCalls, exhausted, seHist, crashMid,
                 callHist, cycleWait, respNil, clock, codeVars>>

\* -------------------------------------------------------------- Sheets.go

\* writeData line 170: year := time.Now().Year().
writeDataYear ==
  /\ Running("wd_year")
  /\ sheetName' = Itoa(year)
  /\ pc' = "wd_range"
  /\ httpCount' = 0
  /\ waits' = <<>>
  /\ NoPanic
  /\ UNCHANGED <<env, runs, data, writeRange, grRuns, seLocals, cycle,
                 restarts, fetchResult, cycleCalls, exhausted, seHist,
                 crashMid, callHist, cycleWait, respNil, clock, codeVars>>

\* writeData lines 171-173: the range of a second time.Now().Year(), then
\* getResponse(writeRange, year, 1), which enters sheetExists(name, 1).
writeDataRange ==
  /\ Running("wd_range")
  /\ writeRange' = Itoa(year) \o <<"!", "A", ":", "A">>
  /\ grRuns' = 1
  /\ seRuns' = 1
  /\ prevSE' = curSE
  /\ curSE' = EnterSE(sheetName)
  /\ pc' = "se_list"
  /\ attempt' = 1
  /\ grAttempt' = 1
  /\ NoPanic
  /\ UNCHANGED <<env, runs, data, sheetName, buRuns, uvRuns, writeValues,
                 valuesRange, cycle, restarts, fetchHist, cycleCalls,
                 exhausted, crashMid, uvHist, cycleWait, respNil, clock, codeVars>>

\* A title comparison that never matches.
sheetPresentNever(titles, name) == FALSE

\* A sheet that counts as present only once its header row is filled.
sheetPresentWithHeader(titles, name) ==
  name \in titles /\ lastFilled(sheets[name].rows) >= 1

\* sheetExists lines 256-260: whether a listed sheet has the title.
sheetPresent(titles, name) == name \in titles

\* A nil response with writeData going on to the row update, as if the
\* sheet held no rows.
writeDataOnNilGoesOn ==
  /\ respNil' = TRUE
  /\ pc' = "wd_update"
  /\ writeValues' = emptyRowOf(allSensors)
  /\ valuesRange' = <<"!", "A", "1">>
  /\ uvRuns' = 0
  /\ grRuns' = 0
  /\ seRuns' = 0
  /\ buRuns' = 0
  /\ attempt' = 1
  /\ grAttempt' = 0
  /\ uvTargets' = {}
  /\ uvFilled' = {}
  /\ NoPanic
  /\ UNCHANGED <<runs, data, sheetName, writeRange>>

\* getResponse returned nil: writeData lines 174-177 log it and return.
writeDataOnNil ==
  /\ respNil' = TRUE
  /\ writeDataReturns

\* sheetExists returns v with se as the invocation's record.  A frame
\* entered by the retry of line 250 returns into a frame whose response is
\* nil, and line 256 of that frame panics.  The first frame returns to
\* getResponse, which goes on to read the range, or on FALSE returns nil,
\* after which writeData returns.
sheetExistsReturns(v, se) ==
  /\ curSE' = IF se.ok THEN [se EXCEPT !.ret = IF v THEN "true" ELSE "false"]
              ELSE se
  /\ IF seRuns > 1
     THEN /\ Panic("response")
          /\ UNCHANGED <<pc, locals, callHist, respNil>>
     ELSE IF v
          THEN /\ pc' = "gr_get"
               /\ NoSheetExistsFrames
               /\ attempt' = 0
               /\ uvTargets' = {}
               /\ uvFilled' = {}
               /\ NoPanic
               /\ UNCHANGED <<wdLocals, grAttempt, respNil>>
          ELSE writeDataOnNil

\* sheetExists with the list of sheets answered: TRUE when the title is
\* listed, else createSheet.
sheetExistsListOK ==
  /\ Running("se_list")
  /\ cycleCalls' = cycleCalls \cup {"list"}
  /\ LET present == sheetPresent(DOMAIN sheets, sheetName)
         se == [curSE EXCEPT !.listed = IF present THEN "yes" ELSE "no"]
     IN  IF present
         THEN sheetExistsReturns(TRUE, se)
         ELSE /\ curSE' = se
              /\ pc' = "cs_create"
              /\ buRuns' = 1
              /\ attempt' = 1
              /\ NoPanic
              /\ UNCHANGED <<wdLocals, seRuns, uvRuns, writeValues,
                             valuesRange, grAttempt, uvHist, respNil>>
  /\ UNCHANGED <<env, cycle, restarts, fetchHist, exhausted, prevSE,
                 crashMid, cycleWait, clock, codeVars>>

\* sheetExists with the list call failing: errorHandler, then either the
\* nested sheetExists(sheetName, runs + 1) or FALSE.
sheetExistsListFails ==
  /\ Running("se_list")
  /\ cycleCalls' = cycleCalls \cup {"list"}
  /\ IF errorHandler(seRuns)
     THEN /\ seRuns' = seRuns + 1
          /\ attempt' = attempt + 1
          /\ cycleWait' = slept(errorWait(seRuns))
          /\ prevSE' = FailedSE
          /\ curSE' = EnterSE(sheetName)
          /\ NoPanic
          /\ UNCHANGED <<pc, exhausted, wdLocals, buRuns, uvRuns,
                         writeValues, valuesRange, grAttempt, uvHist,
                         respNil>>
     ELSE /\ exhausted' = TRUE
          /\ sheetExistsReturns(FALSE, FailedSE)
          /\ UNCHANGED <<prevSE, cycleWait>>
  /\ UNCHANGED <<env, cycle, restarts, fetchHist, crashMid, clock, codeVars>>

\* createSheet line 288 answered with the AddSheet reply: the sheet now
\* exists, and the freeze request follows.
createSheetAddOK ==
  /\ Running("cs_create")
  /\ sheetName \notin DOMAIN sheets
  /\ cycleCalls' = cycleCalls \cup {"create"}
  /\ sheets' = (sheetName :> NewSheet) @@ sheets
  /\ curSE' = Counted(curSE, "creates")
  /\ pc' = "cs_freeze"
  /\ buRuns' = 1
  /\ attempt' = 1
  /\ NoPanic
  /\ UNCHANGED <<allSensors, year, wdLocals, seRuns, uvRuns, writeValues,
                 valuesRange, cycle, restarts, fetchHist, exhausted, prevSE,
                 crashMid, grAttempt, uvHist, cycleWait, respNil, clock, codeVars>>

\* createSheet line 288 answered without AddSheet reply: lines 332-333.
createSheetAddNoReply ==
  /\ Running("cs_create")
  /\ sheetName \notin DOMAIN sheets
  /\ cycleCalls' = cycleCalls \cup {"create"}
  /\ sheetExistsReturns(FALSE, FailedSE)
  /\ UNCHANGED <<env, cycle, restarts, fetchHist, exhausted, prevSE,
                 crashMid, cycleWait, clock, codeVars>>

\* batchUpdateRequest of the AddSheet request failing (it always does for
\* a title that exists): retried by errorHandler, then nil and FALSE.
createSheetAddFails ==
  /\ Running("cs_create")
  /\ cycleCalls' = cycleCalls \cup {"create"}
  /\ IF errorHandler(buRuns)
     THEN /\ buRuns' = buRuns + 1
          /\ attempt' = attempt + 1
          /\ cycleWait' = slept(errorWait(buRuns))
          /\ curSE' = FailedSE
          /\ NoPanic
          /\ UNCHANGED <<pc, exhausted, wdLocals, seRuns, uvRuns,
                         writeValues, valuesRange, grAttempt, uvHist,
                         respNil>>
     ELSE /\ exhausted' = TRUE
          /\ sheetExistsReturns(FALSE, FailedSE)
          /\ UNCHANGED cycleWait
  /\ UNCHANGED <<env, cycle, restarts, fetchHist, prevSE, crashMid, clock, codeVars>>

\* createSheet lines 319-328 once the freeze request is over: the header
\* row is built and handed to updateValues(sheetName, _, "!A1", 1).
createSheetHeader ==
  IF headerPanics(allSensors)
  THEN /\ Panic("header")
       /\ crashMid' = crashMid \cup {sheetName}
       /\ UNCHANGED <<pc, buRuns, uvRuns, writeValues, valuesRange,
                      attempt, uvHist>>
  ELSE /\ \E headerRow \in headerRows(allSensors) : writeValues' = headerRow
       /\ valuesRange' = <<"!", "A", "1">>
       /\ uvRuns' = 1
       /\ buRuns' = 0
       /\ pc' = "cs_header"
       /\ attempt' = 1
       /\ uvTargets' = {}
       /\ uvFilled' = {}
       /\ NoPanic
       /\ UNCHANGED crashMid

\* createSheet line 317 answered: the first row is frozen.
createSheetFreezeOK ==
  /\ Running("cs_freeze")
  /\ cycleCalls' = cycleCalls \cup {"freeze"}
  /\ curSE' = Counted(curSE, "freezes")
  /\ createSheetHeader
  /\ UNCHANGED <<env, wdLocals, seRuns, cycle, restarts,
                 fetchHist, exhausted, prevSE, grAttempt, cycleWait,
                 respNil, clock, codeVars>>

\* createSheet line 317 failing: retried by errorHandler; its result is
\* not looked at.
createSheetFreezeFails ==
  /\ Running("cs_freeze")
  /\ cycleCalls' = cycleCalls \cup {"freeze"}
  /\ curSE' = FailedSE
  /\ IF errorHandler(buRuns)
     THEN /\ buRuns' = buRuns + 1
          /\ attempt' = attempt + 1
          /\ cycleWait' = slept(errorWait(buRuns))
          /\ NoPanic
          /\ UNCHANGED <<pc, uvRuns, writeValues, valuesRange, crashMid,
                         exhausted, uvHist>>
     ELSE /\ exhausted' = TRUE
          /\ createSheetHeader
          /\ UNCHANGED cycleWait
  /\ UNCHANGED <<env, wdLocals, seRuns, cycle, restarts, fetchHist, prevSE,
                 grAttempt, respNil, clock, codeVars>>

\* A range that moves down one row with every retry.
fullRangeMoving(name, range) ==
  name \o <<"!", "A">> \o Itoa(refRow(rangeRef(name \o range)) + attempt - 1)

\* updateValues line 202: the range written.
fullRange(name, range) == name \o range

\* updateValues returns: to createSheet, which returns TRUE through
\* sheetExists, or to writeData, which returns.
updateValuesReturns(se) ==
  IF pc = "cs_header"
  THEN sheetExistsReturns(TRUE, se)
  ELSE /\ writeDataReturns
       /\ curSE' = se
       /\ UNCHANGED respNil

\* updateValues answered: the row is in the sheet.
updateValuesOK ==
  /\ status = "running"
  /\ pc \in {"cs_header", "wd_update"}
  /\ rangeTitle(fullRange(sheetName, valuesRange)) \in DOMAIN sheets
  /\ cycleCalls' =
       cycleCalls \cup {IF pc = "cs_header" THEN "header" ELSE "data"}
  /\ LET range == fullRange(sheetName, valuesRange)
         title == rangeTitle(range)
     IN  sheets' = [sheets EXCEPT ![title].rows =
                      writeRow(@, refRow(rangeRef(range)), writeValues)]
  /\ updateValuesReturns(curSE)
  /\ UNCHANGED <<allSensors, year, cycle, restarts, fetchHist, exhausted,
                 prevSE, crashMid, cycleWait, clock, codeVars>>

\* updateValues with line 208 returning an error: errorHandler, then
\* the same call with runs + 1, or the return.  The error may be that of
\* a request that did not get through, or that of a reply that was lost
\* after the spreadsheet took the write (applied).
updateValuesFails ==
  /\ status = "running"
  /\ pc \in {"cs_header", "wd_update"}
  /\ cycleCalls' =
       cycleCalls \cup {IF pc = "cs_header" THEN "header" ELSE "data"}
  /\ \E applied \in BOOLEAN :
       LET se == IF pc = "cs_header" THEN FailedSE ELSE curSE
           range == fullRange(sheetName, valuesRange)
           title == rangeTitle(range)
           row == refRow(rangeRef(range))
       IN  /\ applied => title \in DOMAIN sheets
           /\ sheets' = IF applied
                        THEN [sheets EXCEPT ![title].rows =
                                writeRow(@, row, writeValues)]
                        ELSE sheets
           /\ IF errorHandler(uvRuns)
              THEN /\ uvRuns' = uvRuns + 1
                   /\ attempt' = attempt + 1
                   /\ cycleWait' = slept(errorWait(uvRuns))
                   /\ uvTargets' = uvTargets \cup {<<range, writeValues>>}
                   /\ uvFilled' =
                        uvFilled \cup (IF applied THEN {row} ELSE {})
                   /\ curSE' = se
                   /\ NoPanic
                   /\ UNCHANGED <<pc, exhausted, wdLocals, seRuns, buRuns,
                                  writeValues, valuesRange, grAttempt,
                                  respNil>>
              ELSE /\ exhausted' = TRUE
                   /\ updateValuesReturns(se)
                   /\ UNCHANGED cycleWait
  /\ UNCHANGED <<allSensors, year, cycle, restarts, fetchHist, prevSE,
                 crashMid, clock, codeVars>>

\* A lookup that stores the zero SensorInfo under each name it does not
\* find.
lookedUpStoring(sensors, text) ==
  LET items == Split(text, ",")
      names == {Trim(Split(items[i], ":")[1], Q) : i \in 1..Len(items)}
  IN  [n \in DOMAIN sensors \cup names |-> Lookup(sensors, n)]

\* writeData line 188: the catalog after the lookups of the payload's
\* names.  Indexing a Go map reads it, also for a name that is not a key.
lookedUp(sensors, text) == sensors

\* The position of the last row read.
emptyRowLast(sheetData) == Max(Len(sheetData), 1)

\* writeData line 181: the position after the rows read.
emptyRow(sheetData) == Len(sheetData) + 1

\* getResponse line 232 answered, then writeData lines 178-194: the next
\* free row from the values read, the data row from the payload, and
\* updateValues(year, dataSheet, "!A<emptyRow>", 0).
getResponseOK ==
  /\ Running("gr_get")
  /\ rangeTitle(writeRange) \in DOMAIN sheets
  /\ cycleCalls' = cycleCalls \cup {"get"}
  /\ allSensors' = lookedUp(allSensors, data)
  /\ LET sheetData == columnA(sheets[rangeTitle(writeRange)].rows)
         built     == buildDataRow(allSensors, data)
     IN  IF built.panic
         THEN /\ Panic("row")
              /\ UNCHANGED <<pc, writeValues, valuesRange, uvRuns, grRuns,
                             callHist>>
         ELSE /\ writeValues' = built.row
              /\ valuesRange' = <<"!", "A">> \o Itoa(emptyRow(sheetData))
              /\ uvRuns' = 0
              /\ grRuns' = 0
              /\ pc' = "wd_update"
              /\ attempt' = 1
              /\ grAttempt' = 0
              /\ uvTargets' = {}
              /\ uvFilled' = {}
              /\ NoPanic
  /\ UNCHANGED <<sheets, year, runs, data, sheetName, writeRange, seRuns,
                 buRuns, cycle, restarts, fetchHist, exhausted, seHist,
                 crashMid, cycleWait, respNil, clock, codeVars>>

\* getResponse line 232 failing (it always does for a range whose sheet
\* does not exist): errorHandler, then getResponse(_, _, runs + 1), which
\* enters sheetExists(name, 1) again, or nil.
getResponseFails ==
  /\ Running("gr_get")
  /\ cycleCalls' = cycleCalls \cup {"get"}
  /\ IF errorHandler(grRuns)
     THEN /\ grRuns' = grRuns + 1
          /\ seRuns' = 1
          /\ grAttempt' = grAttempt + 1
          /\ attempt' = 1
          /\ cycleWait' = slept(errorWait(grRuns))
          /\ prevSE' = curSE
          /\ curSE' = EnterSE(sheetName)
          /\ pc' = "se_list"
          /\ NoPanic
          /\ UNCHANGED <<exhausted, runs, data, sheetName, writeRange,
                         buRuns, uvRuns, writeValues, valuesRange, uvHist,
                         respNil>>
     ELSE /\ exhausted' = TRUE
          /\ writeDataOnNil
          /\ UNCHANGED <<seHist, cycleWait>>
  /\ UNCHANGED <<env, cycle, restarts, fetchHist, crashMid, clock, codeVars>>

\* ------------------------------------------------------- the environment

\* The calendar year changes.  The process looks at the year at lines 170
\* and 171 of writeData only, so a change at any other moment is a change
\* just before the next of these two reads.
NewYear ==
  /\ status = "running"
  /\ pc \in {"wd_year", "wd_range"}
  /\ year + 1 \in Years
  /\ year' = year + 1
  /\ UNCHANGED <<allSensors, sheets, status, pc, locals, cycle, restarts,
                 fetchHist, cycleCalls, exhausted, seHist, crashMid, panicAt,
                 callHist, cycleWait, respNil, clock, codeVars>>

\* The process is ended from outside; a run that ends between the
\* creation of a sheet and the header write leaves the sheet without header.
Kill ==
  /\ status = "running"
  /\ status' = "killed"
  /\ crashMid' = IF pc \in {"cs_freeze", "cs_header"}
                 THEN crashMid \cup {sheetName} ELSE crashMid
  /\ pc' = "sched"
  /\ NoFrames
  /\ httpCount' = 0
  /\ waits' = <<>>
  /\ fetchResult' = "none"
  /\ cycleCalls' = {}
  /\ exhausted' = FALSE
  /\ NoCalls
  /\ cycleWait' = 0
  /\ respNil' = FALSE
  /\ UNCHANGED <<env, cycle, restarts, seHist, panicAt, clock, codeVars>>

\* main lines 20-37 after the process ended: the service and the catalog
\* are set up again and scheduleAPI starts.
Restart ==
  /\ status \in {"killed", "panicked"}
  /\ restarts < MaxRestarts
  /\ restarts' = restarts + 1
  /\ status' = "running"
  /\ panicAt' = "none"
  /\ pc' = "sched"
  /\ NoFrames
  /\ httpCount' = 0
  /\ waits' = <<>>
  /\ fetchResult' = "none"
  /\ cycleCalls' = {}
  /\ exhausted' = FALSE
  /\ NoCalls
  /\ cycleWait' = 0
  /\ respNil' = FALSE
  /\ UNCHANGED <<env, cycle, seHist, crashMid, clock, codeVars>>

Next ==
  \/ scheduleAPI
  \/ executeRequestFails
  \/ executeRequestOK
  \/ writeDataYear
  \/ writeDataRange
  \/ sheetExistsListOK
  \/ sheetExistsListFails
  \/ createSheetAddOK
  \/ createSheetAddNoReply
  \/ createSheetAddFails
  \/ createSheetFreezeOK
  \/ createSheetFreezeFails
  \/ updateValuesOK
  \/ updateValuesFails
  \/ getResponseOK
  \/ getResponseFails
  \/ NewYear
  \/ Kill
  \/ Restart

Spec == Init /\ [][Next]_vars

\* ------------------------------------------- every call answered

\* The program with the catalog of one sensor T1 at column A, and with
\* every HTTP request and every spreadsheet call answered with success.
AnsweredInit ==
  /\ ProcessInit(CatOne)
  /\ ClockOff
  /\ CodeOff

AnsweredNext ==
  \/ scheduleAPI
  \/ executeRequestOK
  \/ writeDataYear
  \/ writeDataRange
  \/ sheetExistsListOK
  \/ createSheetAddOK
  \/ createSheetFreezeOK
  \/ updateValuesOK
  \/ getResponseOK

AnsweredSpec == AnsweredInit /\ [][AnsweredNext]_vars

\* The same with any of the catalogs.
AnsweredAnySpec == Init /\ [][AnsweredNext]_vars

\* ------------------------------------------- the retry waits summed

\* The program with the seconds of its retry waits summed per cycle.
WaitInit ==
  /\ ProcessInit(CatOne)
  /\ CodeOff
  /\ now = 0
  /\ clockPc = "waits"
  /\ currentTime = 0
  /\ nextRun = 0
  /\ waitDuration = 0
  /\ runAt = 0
  /\ doneAt = 0

WaitSpec == WaitInit /\ [][Next]_vars

\* ------------------------------------------- scheduleAPI in time

\* The clock's last instant looked at.
MaxClock == 1500

\* time.Minute, with the second as the unit of time.
Minute == 60

\* The scheduling period, 5 * time.Minute.
Period == 5 * Minute

\* The seconds the clock can advance between the two clock reads of
\* scheduleAPI (time.Now at line 46, time.Until at line 50).
ReadDelays == {0, 1}

\* The seconds time.Sleep can take beyond the duration asked for.
Oversleeps == {0, 1}

\* The seconds executeRequest and writeData can take together: a cycle
\* of answered calls, and cycles held up by retry waits and slow replies
\* to beyond the next boundary and the one after it.
CycleTimes == {2, 4 * Minute, Period + 30, 2 * Period + Minute}

\* Time.Truncate(d) of an instant t seconds after the zero time.
Truncate(t, d) == t - (t % d)

\* A next run that is not moved on before it is rounded down.
nextRunNoAdvance(t) == Truncate(Truncate(t, Minute), Period)

\* A next run five minutes after the current minute.
nextRunFiveMinutesOn(t) == Truncate(t, Minute) + Period

\* scheduleAPI lines 48-49.
nextRunOf(t) == Truncate(Truncate(t, Minute) + Period, Period)

ClockInit ==
  /\ ProcessInit(CatOne)
  /\ CodeOff
  /\ now \in 0..(2 * Period - 1)
  /\ clockPc = "now"
  /\ currentTime = 0
  /\ nextRun = 0
  /\ waitDuration = 0
  /\ runAt = -1
  /\ doneAt = -1

\* scheduleAPI lines 46-49: the current time and the next run.
scheduleAPINow ==
  /\ clockPc = "now"
  /\ currentTime' = now
  /\ nextRun' = nextRunOf(now)
  /\ clockPc' = "until"
  /\ UNCHANGED <<process, codeVars, now, waitDuration, runAt, doneAt>>

\* scheduleAPI line 50: time.Until(nextRun) reads the clock again.
scheduleAPIUntil ==
  /\ clockPc = "until"
  /\ \E delay \in ReadDelays :
       /\ now + delay <= MaxClock
       /\ now' = now + delay
       /\ waitDuration' = nextRun - (now + delay)
  /\ clockPc' = "sleep"
  /\ UNCHANGED <<process, codeVars, currentTime, nextRun, runAt, doneAt>>

\* scheduleAPI line 53: time.Sleep(waitDuration) returns at once for a
\* duration that is not positive; the cycle starts.
scheduleAPISleep ==
  /\ clockPc = "sleep"
  /\ \E over \in Oversleeps :
       /\ now + Max(waitDuration, 0) + over <= MaxClock
       /\ now' = now + Max(waitDuration, 0) + over
  /\ runAt' = nextRun
  /\ clockPc' = "run"
  /\ UNCHANGED <<process, codeVars, currentTime, nextRun, waitDuration, doneAt>>

\* scheduleAPI lines 55-62: executeRequest and writeData take their time,
\* then scheduleAPI is called again.
scheduleAPIRuns ==
  /\ clockPc = "run"
  /\ \E took \in CycleTimes :
       /\ now + took <= MaxClock
       /\ now' = now + took
       /\ doneAt' = now + took
  /\ clockPc' = "now"
  /\ UNCHANGED <<process, codeVars, currentTime, nextRun, waitDuration, runAt>>

ClockNext ==
  \/ scheduleAPINow
  \/ scheduleAPIUntil
  \/ scheduleAPISleep
  \/ scheduleAPIRuns

ClockSpec == ClockInit /\ [][ClockNext]_vars

\* ------------------------------------------- stringToNum alone

LetterSet == {Letters[i] : i \in 1..Len(Letters)}

\* The column codes of one or two upper-case letters.
Codes ==
  {<<a>> : a \in LetterSet} \cup {<<a, b>> : a \in LetterSet, b \in LetterSet}

CodeInit ==
  /\ ProcessInit(CatOne)
  /\ ClockOff
  /\ code \in Codes
  /\ column = <<>>

\* stringToNum(code) is called and returns.
stringToNumCall ==
  /\ column = <<>>
  /\ column' = <<stringToNum(code)>>
  /\ UNCHANGED <<process, clock, code>>

CodeNext == stringToNumCall

CodeSpec == CodeInit /\ [][CodeNext]_vars

\* -------------------------------------------------------------- claims

\* The fields of a payload text, its keys and its values.
Items(text) == Split(text, ",")

ItemKey(item) == Trim(Split(item, ":")[1], Q)

ItemValue(item) == Split(item, ":")[2]

ItemSet(text) == {Items(text)[i] : i \in 1..Len(Items(text))}

\* Every field has one key/value separator.
WellFormed(text) == \A item \in ItemSet(text) : Len(Split(item, ":")) = 2

Known(item) == ItemKey(item) \in DOMAIN allSensors

Column(item) == stringToNum(allSensors[ItemKey(item)].ID)

MaxOrdinal ==
  CHOOSE m \in {stringToNum(allSensors[n].ID) : n \in DOMAIN allSensors} :
    \A n \in DOMAIN allSensors : stringToNum(allSensors[n].ID) <= m

\* writeData has gone through the payload: the row is built, or building
\* it panicked.
RowDecided == pc = "wd_update" \/ panicAt = "row"

\* C1: after a cycle whose fetch used up its retries, or in which a
\* spreadsheet call used up its retries, the process has not ended itself:
\* scheduleAPI is still there to start the next cycle.
C1_SchedulingSurvivesFailure ==
  (fetchResult = "empty" \/ exhausted) => status # "panicked"

\* C2: a fetch whose requests all fail issues four requests, never a
\* fifth, and hands the empty result to writeData; while it runs, the
\* requests issued equal runs, which never exceeds 3.
C2_FetchStopsAfterFourRequests ==
  /\ httpCount <= 4
  /\ pc = "exec" /\ status = "running" => runs <= 3 /\ Len(waits) = runs
  /\ fetchResult = "empty" /\ pc = "wd_year" => httpCount = 4 /\ data = <<>>

C2_Witness ==
  fetchResult = "empty" /\ pc = "wd_year" /\ httpCount = 4 /\ data = <<>>

\* C3: within one fetch, each wait is at least the wait before it.
C3_WaitsNonDecreasing ==
  \A i \in 1..(Len(waits) - 1) : waits[i] <= waits[i + 1]

C3_Witness == Len(waits) = 3 /\ waits[1] < waits[3]

\* C4: the wait that precedes attempt k is 10 * (k - 1) seconds; waits[i]
\* is the wait that precedes attempt i + 1.
C4_WaitIsTenPerAttempt ==
  \A i \in 1..Len(waits) : waits[i] = 10 * i

\* C5: a cycle whose payload is empty because the fetch used up its
\* retries issues no spreadsheet call and does not end the process.
C5_EmptyPayloadShortCircuits ==
  fetchResult = "empty" => cycleCalls = {} /\ status # "panicked"

\* C6: a payload with a field of an unknown sensor does not end the
\* process; the value of that field is in no slot of the row, and every
\* field of a known sensor is at its column.
C6_UnknownSensorSkipped ==
  (/\ RowDecided
   /\ WellFormed(data)
   /\ \E item \in ItemSet(data) : ~Known(item))
  => /\ status # "panicked"
     /\ \A item \in ItemSet(data) :
          IF Known(item)
          THEN writeValues[Column(item) + 1] = <<ItemValue(item)>>
          ELSE \A i \in 1..Len(writeValues) :
                 writeValues[i] # <<ItemValue(item)>>

\* C7: for a payload of known sensors the row is as wide as the largest
\* column ordinal plus one, holds each value at its sensor's column and is
\* blank elsewhere.
C7_RowLayout ==
  (/\ RowDecided
   /\ WellFormed(data)
   /\ \A item \in ItemSet(data) : Known(item))
  => /\ status # "panicked"
     /\ Len(writeValues) = MaxOrdinal + 1
     /\ \A i \in 1..Len(writeValues) :
          IF \E item \in ItemSet(data) : Column(item) = i - 1
          THEN \E item \in ItemSet(data) :
                 Column(item) = i - 1 /\ writeValues[i] = <<ItemValue(item)>>
          ELSE writeValues[i] = <<>>

\* C8: the header row of a created sheet holds each sensor's description
\* at the sensor's column and is blank at the columns without sensor,
\* whatever the catalog.
C8_HeaderLayout ==
  /\ panicAt # "header"
  /\ pc = "cs_header" =>
       /\ Len(writeValues) = MaxOrdinal + 1
       /\ \A i \in 1..Len(writeValues) :
            LET here == {n \in DOMAIN allSensors :
                           stringToNum(allSensors[n].ID) = i - 1}
            IN  IF here = {} THEN writeValues[i] = <<>>
                ELSE \E n \in here :
                       writeValues[i] = <<allSensors[n].Description>>

\* C9: of two sheetExists calls in succession for one title, with every
\* call answered, the first issues one create and one freeze call when
\* the title was not listed and none when it was, and the second finds
\* the title listed and issues none.
C9_EnsureExistsIdempotent ==
  /\ curSE.ok /\ curSE.ret = "true" =>
       IF curSE.listed = "no"
       THEN curSE.creates = 1 /\ curSE.freezes = 1
       ELSE curSE.listed = "yes" /\ curSE.creates = 0 /\ curSE.freezes = 0
  /\ (/\ prevSE.ok /\ prevSE.ret = "true"
      /\ curSE.name = prevSE.name
      /\ curSE.listed # "na")
     => /\ curSE.listed = "yes"
        /\ curSE.creates = 0 /\ curSE.freezes = 0
        /\ prevSE.creates + curSE.creates
             = (IF prevSE.listed = "no" THEN 1 ELSE 0)
        /\ prevSE.freezes + curSE.freezes
             = (IF prevSE.listed = "no" THEN 1 ELSE 0)

C9_Witness ==
  /\ prevSE.ok /\ prevSE.ret = "true" /\ prevSE.listed = "no"
  /\ prevSE.creates = 1 /\ prevSE.freezes = 1
  /\ curSE.name = prevSE.name
  /\ curSE.ok /\ curSE.ret = "true" /\ curSE.listed = "yes"
  /\ curSE.creates = 0 /\ curSE.freezes = 0

\* C10: a sheetExists call for a title whose sheet was created by a run
\* that died before the header write finds the title listed, returns TRUE
\* and does not enter createSheet.
C10_UnheaderedSheetNotRecreated ==
  curSE.recovering /\ curSE.listed # "na" =>
    /\ curSE.listed = "yes"
    /\ curSE.ret = "true"
    /\ curSE.creates = 0
    /\ pc # "cs_create"

C10_Witness ==
  /\ restarts >= 1
  /\ curSE.recovering /\ curSE.ret = "true" /\ curSE.creates = 0
  /\ curSE.name \in crashMid
  /\ lastFilled(sheets[curSE.name].rows) = 0
  /\ pc = "gr_get"

\* C11: no call of the spreadsheet (list, create, freeze, get, header
\* update, data-row update) is attempted more than four times in one
\* invocation.
C11_AtMostFourAttempts == attempt <= 4 /\ grAttempt <= 4

\* C12: a sheetExists whose list call failed does not end the process:
\* no frame entered by its retry returns into a panic.
C12_ListFailureSurvived == seRuns > 1 => panicAt # "response"

\* C16: when getResponse returns nil (sheetExists returned false, or the
\* read failed on every attempt), writeData returns without a data-row
\* update call; and a writeData that returned without one had a nil
\* response.
C16_NilResponseNoDataWrite ==
  /\ respNil => pc = "sched" /\ "data" \notin cycleCalls
  /\ (/\ pc = "sched" /\ status = "running"
      /\ "list" \in cycleCalls /\ "data" \notin cycleCalls) => respNil

\* The read failed on every attempt and writeData returned.
C16_Witness ==
  respNil /\ exhausted /\ "get" \in cycleCalls /\ "data" \notin cycleCalls

\* C17: a data row is never written at row 1.
C17_DataRowsFromRowTwo ==
  pc = "wd_update" =>
    refRow(rangeRef(fullRange(sheetName, valuesRange))) >= 2

\* C18: a payload with a field that has no key/value separator does not
\* end the process, and its well-formed fields are written.
C18_MalformedFieldSkipped ==
  (/\ RowDecided
   /\ Len(data) > 0
   /\ ~WellFormed(data)
   /\ \A item \in ItemSet(data) : Len(Split(item, ":")) = 2 => Known(item))
  => /\ status # "panicked"
     /\ \A item \in ItemSet(data) :
          Len(Split(item, ":")) = 2 =>
            writeValues[Column(item) + 1] = <<ItemValue(item)>>

\* C15: all attempts of one updateValues invocation send the same rows
\* to the same range of the same sheet, so that together they fill at
\* most one row position.
C15_RetriesHitOneRange ==
  /\ Cardinality(uvTargets) <= 1
  /\ Cardinality(uvFilled) <= 1
  /\ pc \in {"cs_header", "wd_update"} =>
       \A target \in uvTargets :
         target = <<fullRange(sheetName, valuesRange), writeValues>>

\* The data-row update is at its third attempt or later, and an attempt
\* that reported an error has filled the row.
C15_Witness ==
  /\ pc = "wd_update"
  /\ attempt >= 3
  /\ uvFilled = {refRow(rangeRef(fullRange(sheetName, valuesRange)))}

\* C20: the retry waits of one cycle sum to less than the scheduling
\* period.
C20_WaitsWithinPeriod == cycleWait < Period

\* The values the payloads carry in their first field.
FirstValues == {ItemValue(Items(payload)[1]) : payload \in {fT1a, fT1b}}

\* C13: with the catalog {T1 at column A, "Temp"} and every call
\* answered, the first cycle of a year creates the year's sheet, writes
\* the header row [Temp] at row 1 and its data row at row 2; the second
\* cycle issues no create call and writes its data row at row 3.
C13_FirstAndSecondCycle ==
  /\ pc = "cs_header" =>
       /\ cycle = 1
       /\ sheets[sheetName].rows = <<>>
       /\ fullRange(sheetName, valuesRange) = Itoa(year) \o <<"!", "A", "1">>
       /\ writeValues = <<(<<dTemp>>)>>
  /\ pc = "wd_update" =>
       /\ fullRange(sheetName, valuesRange) =
            Itoa(year) \o <<"!", "A">> \o Itoa(cycle + 1)
       /\ writeValues = <<(<<ItemValue(Items(data)[1])>>)>>
       /\ Len(sheets[sheetName].rows) = cycle
       /\ "create" \in cycleCalls <=> cycle = 1
  /\ (pc = "sched" /\ cycle >= 1 /\ status = "running") =>
       /\ DOMAIN sheets = {Itoa(year)}
       /\ "create" \in cycleCalls <=> cycle = 1
       /\ LET rows == sheets[Itoa(year)].rows
          IN  /\ Len(rows) = cycle + 1
              /\ rows[1] = <<dTemp>>
              /\ \A i \in 2..Len(rows) :
                   \E value \in FirstValues : rows[i] = <<value>>

\* The second cycle has written its row at row 3.
C13_Witness ==
  /\ pc = "sched"
  /\ cycle = 2
  /\ status = "running"
  /\ "create" \notin cycleCalls
  /\ Len(sheets[Itoa(year)].rows) = 3

\* The instants that are multiples of the scheduling period.
Boundaries == {b \in 0..(MaxClock + Period) : b % Period = 0}

\* C14: the next-run instant is a multiple of 5 minutes and later than
\* the time it was computed from.
C14_NextRunOnLaterBoundary ==
  clockPc \in {"until", "sleep", "run"} =>
    /\ nextRun \in Boundaries
    /\ nextRun > currentTime

\* The next run was computed at a boundary and is one period later.
C14_Witness ==
  /\ clockPc = "until"
  /\ currentTime > 0
  /\ currentTime \in Boundaries
  /\ nextRun = currentTime + Period

\* The next run is computed from the time the last cycle finished, it is
\* the first boundary after that time, and it is later than the boundary
\* of the last cycle.
NextRunIsNearest ==
  clockPc \in {"until", "sleep"} =>
    /\ doneAt >= 0 => currentTime = doneAt
    /\ \A b \in Boundaries : ~(currentTime < b /\ b < nextRun)
    /\ nextRun > currentTime
    /\ nextRun - currentTime <= Period
    /\ nextRun > runAt

\* C19 as claimed: the next run is the nearest future boundary after the
\* finish of the last cycle, one run follows a cycle that overran, and the
\* sleep is greater than 0 and at most 5 minutes.
C19_SleepToNearestBoundary ==
  /\ NextRunIsNearest
  /\ clockPc = "sleep" => waitDuration > 0 /\ waitDuration <= Period

\* C19 as amended: the sleep is at most 5 minutes, and it is 0 or less
\* only when the clock reached the next run between the two clock reads;
\* the cycle never starts before its next-run instant.
C19_SleepAtMostPeriod ==
  /\ NextRunIsNearest
  /\ clockPc = "sleep" =>
       /\ waitDuration <= Period
       /\ waitDuration <= 0 => now > currentTime /\ now >= nextRun
  /\ clockPc = "run" => now >= runAt

\* The last cycle overran at least one boundary, and the sleep to the
\* next one has been computed.
C19_Witness ==
  /\ clockPc = "sleep"
  /\ runAt >= 0
  /\ doneAt - runAt > Period
  /\ waitDuration > 0
  /\ nextRun - doneAt < Period

\* C21: a response with status 200 and a body read to its end does not
\* end the process in executeRequest, whatever the length of the body.
C21_AnsweredFetchReturns == pc = "exec" => status # "panicked"

\* The rows of a sheet that hold a value.
FilledRows(rows) ==
  {i \in 1..Len(rows) : \E j \in 1..Len(rows[i]) : rows[i][j] # <<>>}

\* C22: with every call answered, the data row of a cycle goes to a row
\* below every row that holds a value, so below the data rows of the
\* cycles before it.
C22_RowsOnlyAppended ==
  pc = "wd_update" =>
    \A i \in FilledRows(sheets[sheetName].rows) :
      i < refRow(rangeRef(fullRange(sheetName, valuesRange)))

\* C23: in one writeData call the sheet that is ensured and written and
\* the sheet of the range that is read have the same title.
C23_OneLabelPerCall ==
  (status = "running" /\ pc \in {"se_list", "cs_create", "cs_freeze",
                                  "cs_header", "gr_get", "wd_update"})
  => rangeTitle(writeRange) = sheetName

\* C24: no step of a cycle adds, removes or changes an entry of the
\* sensor catalog.
C24_CatalogUnchanged == [][allSensors' = allSensors]_vars

\* A cycle that went through createSheet, getResponse and both
\* updateValues calls has returned to scheduleAPI.
C24_Witness ==
  /\ pc = "sched"
  /\ status = "running"
  /\ cycle >= 1
  /\ {"list", "create", "freeze", "header", "get", "data"} \subseteq cycleCalls

\* The place of a letter in the alphabet, from 1.
Ordinal(c) == CHOOSE i \in 1..Len(Letters) : Letters[i] = c

\* The zero-based index of a code of one or two letters in the order
\* A, ..., Z, AA, ..., AZ, BA, ...
BijectiveIndex(s) ==
  IF Len(s) = 1 THEN Ordinal(s[1]) - 1
  ELSE 26 * Ordinal(s[1]) + Ordinal(s[2]) - 1

\* C25: for a code of one or two upper-case letters stringToNum returns
\* the zero-based bijective base-26 index (A 0, Z 25, AA 26, AZ 51,
\* BA 52), which is not negative and is the index of no other code.
C25_ColumnIndex ==
  column # <<>> =>
    /\ column[1] = BijectiveIndex(code)
    /\ column[1] >= 0
    /\ \A other \in Codes \ {code} : stringToNum(other) # column[1]
    /\ code = <<"A">> => column[1] = 0
    /\ code = <<"Z">> => column[1] = 25
    /\ code = <<"A", "A">> => column[1] = 26
    /\ code = <<"A", "Z">> => column[1] = 51
    /\ code = <<"B", "A">> => column[1] = 52

\* stringToNum has returned 52 for BA.
C25_Witness == code = <<"B", "A">> /\ column = <<52>>

====
